---- MODULE Spec2Model ----
(***************************************************************************)
(* Reversi (Othello) on an 8x8 board: the Board type (is_valid_move,       *)
(* apply_move, has_valid_moves, count_pieces) and the game loop of main,   *)
(* as written in a1/src/main.rs.                                           *)
(***************************************************************************)
EXTENDS Integers, Sequences, FiniteSets, TLC

VARIABLES
    grid,            \* Board.grid: row -> col -> Cell
    current_player,  \* main: current_player
    pc,              \* main: "loop" (top of the loop), "done" (after break),
                     \*       "panicked" (aborted by a panic);
                     \* Board-only specifications: "call" / "ret"
    moves,           \* history: number of apply_move calls so far
    call,            \* history: <<>> or <<[before, row, col, color]>>, the last apply_move call
    input,           \* history: <<>> or <<[n, buf]>>, the last result of read_line:
                     \*   n bytes read into buf (0 at end of input, -1 for Err)
    outcome,         \* history: what the last loop iteration did
    eof,             \* the input stream is exhausted (a read returned 0 bytes)
    result           \* the result line printed on termination, "" before

vars == <<grid, current_player, pc, moves, call, input, outcome, eof, result>>

(***************************************************************************)
(* Cell                                                                    *)
(***************************************************************************)
BOARD_SIZE == 8

Empty == "Empty"
Black == "Black"
White == "White"
Cell == {Empty, Black, White}
Players == {Black, White}

opposite(c) ==
    CASE c = Black -> White
      [] c = White -> Black
      [] OTHER     -> Empty

Idx == 0 .. (BOARD_SIZE - 1)
Cells == Idx \X Idx

(***************************************************************************)
(* Board                                                                   *)
(***************************************************************************)
\* the initial board with the colours of the four centre cells exchanged
Board_new_swapped ==
    [row \in Idx |-> [col \in Idx |->
        IF <<row, col>> \in {<<3, 3>>, <<4, 4>>} THEN Black
        ELSE IF <<row, col>> \in {<<3, 4>>, <<4, 3>>} THEN White
        ELSE Empty]]
Board_new ==
    [row \in Idx |-> [col \in Idx |->
        IF <<row, col>> \in {<<3, 3>>, <<4, 4>>} THEN White
        ELSE IF <<row, col>> \in {<<3, 4>>, <<4, 3>>} THEN Black
        ELSE Empty]]

directions ==
    << <<-1, -1>>, <<-1, 0>>, <<-1, 1>>,
       <<0, -1>>,             <<0, 1>>,
       <<1, -1>>,  <<1, 0>>,  <<1, 1>> >>

\* the condition of the two while loops
in_board(r, c) == r >= 0 /\ r < BOARD_SIZE /\ c >= 0 /\ c < BOARD_SIZE

\* valid_scan, but a cell of color closes the line with no opponent cell before it
RECURSIVE valid_scan_no_opposite(_, _, _, _, _, _, _)
valid_scan_no_opposite(g, r, c, dr, dc, color, found_opposite) ==
    IF ~in_board(r, c) THEN FALSE
    ELSE IF g[r][c] = opposite(color)
         THEN valid_scan_no_opposite(g, r + dr, c + dc, dr, dc, color, TRUE)
    ELSE IF g[r][c] = color THEN TRUE
    ELSE FALSE

\* the while loop of is_valid_move in one direction: TRUE iff it executes `return true`
RECURSIVE valid_scan(_, _, _, _, _, _, _)
valid_scan(g, r, c, dr, dc, color, found_opposite) ==
    IF ~in_board(r, c) THEN FALSE
    ELSE IF g[r][c] = opposite(color)
         THEN valid_scan(g, r + dr, c + dc, dr, dc, color, TRUE)
    ELSE IF g[r][c] = color /\ found_opposite THEN TRUE
    ELSE FALSE

\* is_valid_move without the scan of the directions: every Empty cell is valid
is_valid_move_any_empty(g, row, col, color) ==
    IF row >= BOARD_SIZE THEN FALSE
    ELSE IF col >= BOARD_SIZE THEN FALSE
    ELSE g[row][col] = Empty
\* is_valid_move without the test that the cell is Empty
is_valid_move_any_cell(g, row, col, color) ==
    IF row >= BOARD_SIZE THEN FALSE
    ELSE IF col >= BOARD_SIZE THEN FALSE
    ELSE \E i \in 1 .. Len(directions) :
            valid_scan(g, row + directions[i][1], col + directions[i][2],
                       directions[i][1], directions[i][2], color, FALSE)
is_valid_move(g, row, col, color) ==
    IF row >= BOARD_SIZE THEN FALSE
    ELSE IF col >= BOARD_SIZE THEN FALSE
    ELSE IF g[row][col] # Empty THEN FALSE
    ELSE \E i \in 1 .. Len(directions) :
            valid_scan(g, row + directions[i][1], col + directions[i][2],
                       directions[i][1], directions[i][2], color, FALSE)

\* flip_all, but the captured cells are taken off the board\* flip_all, but with the row and the column of each cell exchanged
flip_all_transposed(g, to_flip, color) ==
    [r \in Idx |-> [c \in Idx |->
        IF \E k \in 1 .. Len(to_flip) : to_flip[k] = <<c, r>> THEN color ELSE g[r][c]]]

\* flip_all, but the cells are emptied
flip_all_removes(g, to_flip, color) ==
    [r \in Idx |-> [c \in Idx |->
        IF \E k \in 1 .. Len(to_flip) : to_flip[k] = <<r, c>> THEN Empty ELSE g[r][c]]]

\* for &(fr, fc) in to_flip.iter() { self.grid[fr][fc] = color; }
flip_all(g, to_flip, color) ==
    [r \in Idx |-> [c \in Idx |->
        IF \E k \in 1 .. Len(to_flip) : to_flip[k] = <<r, c>> THEN color ELSE g[r][c]]]

\* flip_scan, but the cells collected are flipped wherever the scan ends
RECURSIVE flip_scan_open_end(_, _, _, _, _, _, _)
flip_scan_open_end(g, r, c, dr, dc, color, to_flip) ==
    IF ~in_board(r, c) THEN flip_all(g, to_flip, color)
    ELSE IF g[r][c] = opposite(color)
         THEN flip_scan_open_end(g, r + dr, c + dc, dr, dc, color,
                                 Append(to_flip, <<r, c>>))
    ELSE flip_all(g, to_flip, color)

\* the while loop of apply_move in one direction: the grid it leaves
RECURSIVE flip_scan(_, _, _, _, _, _, _)
flip_scan(g, r, c, dr, dc, color, to_flip) ==
    IF ~in_board(r, c) THEN g
    ELSE IF g[r][c] = opposite(color)
         THEN flip_scan(g, r + dr, c + dc, dr, dc, color, Append(to_flip, <<r, c>>))
    ELSE IF g[r][c] = color THEN flip_all(g, to_flip, color)
    ELSE g

\* the for loop of apply_move over directions i, i+1, ..., each on the grid the last one left
RECURSIVE apply_dirs(_, _, _, _, _)
apply_dirs(g, row, col, color, i) ==
    IF i > Len(directions) THEN g
    ELSE apply_dirs(flip_scan(g, row + directions[i][1], col + directions[i][2],
                              directions[i][1], directions[i][2], color, <<>>),
                    row, col, color, i + 1)

\* apply_move, but the disc is not placed
apply_move_no_place(g, row, col, color) ==
    apply_dirs(g, row, col, color, 1)

apply_move(g, row, col, color) ==
    apply_dirs([g EXCEPT ![row][col] = color], row, col, color, 1)

\* lines 128-135: the two loops from (row, col) on, row by row, returning true at
\* the first cell that is a valid move and false when the rows are exhausted
RECURSIVE has_valid_moves_from(_, _, _, _)
has_valid_moves_from(g, color, row, col) ==
    IF row >= BOARD_SIZE THEN FALSE
    ELSE IF col >= BOARD_SIZE THEN has_valid_moves_from(g, color, row + 1, 0)
    ELSE IF is_valid_move(g, row, col, color) THEN TRUE
    ELSE has_valid_moves_from(g, color, row, col + 1)

\* has_valid_moves with the final `false` inside the loop over the rows: only
\* row 0 is scanned
has_valid_moves_first_row(g, color) ==
    \E col \in Idx : is_valid_move(g, 0, col, color)

has_valid_moves(g, color) == has_valid_moves_from(g, color, 0, 0)

\* <<black_count, white_count>>
\* count_pieces with the two counters returned in the other order
count_pieces_swapped(g) ==
    <<Cardinality({rc \in Cells : g[rc[1]][rc[2]] = White}),
      Cardinality({rc \in Cells : g[rc[1]][rc[2]] = Black})>>
count_pieces(g) ==
    << Cardinality({rc \in Cells : g[rc[1]][rc[2]] = Black}),
       Cardinality({rc \in Cells : g[rc[1]][rc[2]] = White}) >>

(***************************************************************************)
(* Text: a string is the sequence of its chars, a char is its code point   *)
(***************************************************************************)
\* bytes of a char in UTF-8
len_utf8(ch) ==
    IF ch < 128 THEN 1 ELSE IF ch < 2048 THEN 2 ELSE IF ch < 65536 THEN 3 ELSE 4

\* str::len: the length in bytes
RECURSIVE str_len(_)
str_len(s) == IF s = <<>> THEN 0 ELSE len_utf8(Head(s)) + str_len(Tail(s))

is_whitespace(ch) == ch \in {9, 10, 11, 12, 13, 32}

RECURSIVE trim_start(_)
trim_start(s) ==
    IF s # <<>> /\ is_whitespace(Head(s)) THEN trim_start(Tail(s)) ELSE s

RECURSIVE trim_end(_)
trim_end(s) ==
    IF s # <<>> /\ is_whitespace(s[Len(s)]) THEN trim_end(SubSeq(s, 1, Len(s) - 1)) ELSE s

\* str::trim
trim(s) == trim_end(trim_start(s))

\* chars().nth(n): <<>> is None, <<ch>> is Some(ch)
chars_nth(s, n) == IF n < Len(s) THEN <<s[n + 1]>> ELSE <<>>

\* 'a' as usize
CharA == 97

\* the width of usize in the model (the wrapped difference only has to be >= BOARD_SIZE)
UsizeBits == 16

\* a - b in usize when a < b and overflow checks are off
wrapping_sub(a, b) == (a - b) % (2 ^ UsizeBits)

\* lines 194-195: the decoding of move_input into row and col.
\* overflow_checks is the build's setting: on, `a - b` with a < b panics; off, it wraps.
decode(move_input, overflow_checks) ==
    LET c0 == chars_nth(move_input, 0)
        c1 == chars_nth(move_input, 1)
    IN  IF c0 = <<>> THEN [status |-> "panic_unwrap", row |-> 0, col |-> 0]
        ELSE IF c0[1] < CharA /\ overflow_checks
             THEN [status |-> "panic_overflow", row |-> 0, col |-> 0]
        ELSE IF c1 = <<>> THEN [status |-> "panic_unwrap", row |-> 0, col |-> 0]
        ELSE IF c1[1] < CharA /\ overflow_checks
             THEN [status |-> "panic_overflow", row |-> 0, col |-> 0]
        ELSE [status |-> "ok",
              row |-> wrapping_sub(c0[1], CharA),
              col |-> wrapping_sub(c1[1], CharA)]

(***************************************************************************)
(* The input collaborator                                                  *)
(***************************************************************************)
\* the line that names cell (row, col)
MoveLine(row, col) == <<CharA + row, CharA + col>>

\* the cells the modelled players name
MoveCells ==
    { <<0, 0>>, <<0, 2>>, <<1, 1>>, <<2, 0>>, <<2, 1>>, <<2, 2>>, <<2, 3>>,
      <<2, 4>>, <<2, 5>>, <<3, 5>>, <<4, 5>>, <<5, 4>> }

\* other lines: "abc", "", "a", U+00E9, "A1", "c3", "zz", "ai", "a"+U+00E9,
\* U+1F600, " cd "
OtherLines ==
    { <<97, 98, 99>>, <<>>, <<97>>, <<233>>, <<65, 49>>, <<99, 51>>, <<122, 122>>,
      <<97, 105>>, <<97, 233>>, <<128512>>, <<32, 99, 100, 32>> }

Lines == {MoveLine(rc[1], rc[2]) : rc \in MoveCells} \cup OtherLines

\* read_line at end of input: Ok(0), nothing appended
EofRead == [n |-> 0, buf |-> <<>>]

\* read_line that fails: Err, nothing appended
ErrRead == [n |-> -1, buf |-> <<>>]

\* read_line otherwise: Ok(n), the line and its newline appended
LineRead(l) == [n |-> str_len(l) + 1, buf |-> Append(l, 10)]

Reads == IF eof THEN {EofRead} ELSE {EofRead} \cup {LineRead(l) : l \in Lines}

(***************************************************************************)
(* main                                                                    *)
(***************************************************************************)
Init ==
    /\ grid = Board_new
    /\ current_player = Black
    /\ pc = "loop"
    /\ moves = 0
    /\ call = <<>>
    /\ input = <<>>
    /\ outcome = "start"
    /\ eof = FALSE
    /\ result = ""

\* line 165: the condition of the game-over branch
\* the test of line 165 with "or" in place of "and"
game_ended_either(g) == ~has_valid_moves(g, Black) \/ ~has_valid_moves(g, White)

\* line 165
game_ended(g) == ~has_valid_moves(g, Black) /\ ~has_valid_moves(g, White)
\* lines 172-176 with the comparison the other way round
result_of_reversed(counts) ==
    IF counts[1] < counts[2] THEN <<"Black wins", counts[2] - counts[1]>>
    ELSE IF counts[1] > counts[2] THEN <<"White wins", counts[1] - counts[2]>>
    ELSE <<"Draw", 0>>

\* lines 172-176
result_of(counts) ==
    IF counts[1] > counts[2] THEN <<"Black wins", counts[1] - counts[2]>>
    ELSE IF counts[1] < counts[2] THEN <<"White wins", counts[2] - counts[1]>>
    ELSE <<"Draw", 0>>

\* the loop is at its top and the game-over branch is not taken: a line is requested
in_progress == pc = "loop" /\ ~game_ended(grid)

\* an iteration that takes the game-over branch and breaks
GameOver ==
    /\ pc = "loop"
    /\ game_ended(grid)
    /\ pc' = "done"
    /\ outcome' = "game_over"
    /\ result' = result_of(count_pieces(grid))
    /\ UNCHANGED <<grid, current_player, moves, call, input, eof>>

\* an iteration whose read_line returns Err: expect panics
ReadError ==
    /\ in_progress
    /\ ~eof
    /\ input' = <<ErrRead>>
    /\ pc' = "panicked"
    /\ outcome' = "panic_read"
    /\ UNCHANGED <<grid, current_player, moves, call, eof, result>>

\* an iteration that reads a line and prints "Invalid input. Try again."
InvalidInput ==
    /\ in_progress
    /\ \E rd \in Reads :
          /\ str_len(trim(rd.buf)) # 2
          /\ input' = <<rd>>
          /\ eof' = (rd.n = 0)
          /\ outcome' = "invalid_input"
          /\ UNCHANGED <<grid, current_player, pc, moves, call, result>>

\* an iteration that reads a line and panics while decoding it
DecodePanic ==
    /\ in_progress
    /\ \E rd \in Reads : \E overflow_checks \in BOOLEAN :
          LET d == decode(trim(rd.buf), overflow_checks)
          IN  /\ str_len(trim(rd.buf)) = 2
              /\ d.status # "ok"
              /\ input' = <<rd>>
              /\ eof' = (rd.n = 0)
              /\ pc' = "panicked"
              /\ outcome' = d.status
              /\ UNCHANGED <<grid, current_player, moves, call, result>>

\* InvalidMove, but the turn goes to the other player
InvalidMove_SwitchesPlayer ==
    /\ in_progress
    /\ \E rd \in Reads : \E overflow_checks \in BOOLEAN :
          LET d == decode(trim(rd.buf), overflow_checks)
          IN  /\ str_len(trim(rd.buf)) = 2
              /\ d.status = "ok"
              /\ (d.row >= BOARD_SIZE \/ d.col >= BOARD_SIZE
                    \/ ~is_valid_move(grid, d.row, d.col, current_player))
              /\ input' = <<rd>>
              /\ eof' = (rd.n = 0)
              /\ outcome' = "invalid_move"
              /\ current_player' = opposite(current_player)
              /\ UNCHANGED <<grid, pc, moves, call, result>>

\* an iteration that reads a line and prints "Invalid move. Try again."
InvalidMove ==
    /\ in_progress
    /\ \E rd \in Reads : \E overflow_checks \in BOOLEAN :
          LET d == decode(trim(rd.buf), overflow_checks)
          IN  /\ str_len(trim(rd.buf)) = 2
              /\ d.status = "ok"
              /\ (d.row >= BOARD_SIZE \/ d.col >= BOARD_SIZE
                    \/ ~is_valid_move(grid, d.row, d.col, current_player))
              /\ input' = <<rd>>
              /\ eof' = (rd.n = 0)
              /\ outcome' = "invalid_move"
              /\ UNCHANGED <<grid, current_player, pc, moves, call, result>>

\* ApplyMove, but without the is_valid_move test of line 198
ApplyMove_Unchecked ==
    /\ in_progress
    /\ \E rd \in Reads : \E overflow_checks \in BOOLEAN :
          LET d == decode(trim(rd.buf), overflow_checks)
          IN  /\ str_len(trim(rd.buf)) = 2
              /\ d.status = "ok"
              /\ ~(d.row >= BOARD_SIZE \/ d.col >= BOARD_SIZE)
              /\ input' = <<rd>>
              /\ eof' = (rd.n = 0)
              /\ grid' = apply_move(grid, d.row, d.col, current_player)
              /\ call' = <<[before |-> grid, row |-> d.row, col |-> d.col,
                            color |-> current_player]>>
              /\ moves' = moves + 1
              /\ current_player' = opposite(current_player)
              /\ outcome' = "applied"
              /\ UNCHANGED <<pc, result>>
\* ApplyMove, but the turn stays with the player who moved
ApplyMove_KeepsPlayer ==
    /\ in_progress
    /\ \E rd \in Reads : \E overflow_checks \in BOOLEAN :
          LET d == decode(trim(rd.buf), overflow_checks)
          IN  /\ str_len(trim(rd.buf)) = 2
              /\ d.status = "ok"
              /\ ~(d.row >= BOARD_SIZE \/ d.col >= BOARD_SIZE
                     \/ ~is_valid_move(grid, d.row, d.col, current_player))
              /\ input' = <<rd>>
              /\ eof' = (rd.n = 0)
              /\ grid' = apply_move(grid, d.row, d.col, current_player)
              /\ call' = <<[before |-> grid, row |-> d.row, col |-> d.col,
                            color |-> current_player]>>
              /\ moves' = moves + 1
              /\ outcome' = "applied"
              /\ UNCHANGED <<current_player, pc, result>>
\* an iteration that reads a line, applies the move and switches the player
ApplyMove ==
    /\ in_progress
    /\ \E rd \in Reads : \E overflow_checks \in BOOLEAN :
          LET d == decode(trim(rd.buf), overflow_checks)
          IN  /\ str_len(trim(rd.buf)) = 2
              /\ d.status = "ok"
              /\ ~(d.row >= BOARD_SIZE \/ d.col >= BOARD_SIZE
                     \/ ~is_valid_move(grid, d.row, d.col, current_player))
              /\ input' = <<rd>>
              /\ eof' = (rd.n = 0)
              /\ grid' = apply_move(grid, d.row, d.col, current_player)
              /\ call' = <<[before |-> grid, row |-> d.row, col |-> d.col,
                            color |-> current_player]>>
              /\ moves' = moves + 1
              /\ current_player' = opposite(current_player)
              /\ outcome' = "applied"
              /\ UNCHANGED <<pc, result>>

Next ==
    \/ GameOver
    \/ ReadError
    \/ InvalidInput
    \/ DecodePanic
    \/ InvalidMove
    \/ ApplyMove

Spec == Init /\ [][Next]_vars

(***************************************************************************)
(* Free play: any sequence of legal moves on the initial board, by either  *)
(* colour in any order                                                     *)
(***************************************************************************)
MaxMoves == 4

PlayMove(row, col, color) ==
    /\ moves < MaxMoves
    /\ is_valid_move(grid, row, col, color)
    /\ grid' = apply_move(grid, row, col, color)
    /\ call' = <<[before |-> grid, row |-> row, col |-> col, color |-> color]>>
    /\ moves' = moves + 1
    /\ UNCHANGED <<current_player, pc, input, outcome, eof, result>>

NextPlay == \E row \in Idx : \E col \in Idx : \E color \in Players : PlayMove(row, col, color)

SpecPlay == Init /\ [][NextPlay]_vars

(***************************************************************************)
(* Board calls: one call of apply_move, after is_valid_move returned true, *)
(* on each board of a family of arbitrary boards                           *)
(***************************************************************************)
\* the cells that hold any of the three values; every other cell is Empty
SampleCells ==
    { <<0, 0>>, <<0, 1>>, <<0, 2>>, <<0, 3>>,
      <<1, 0>>, <<2, 0>>,
      <<1, 1>> }

SampleBoard(f) ==
    [row \in Idx |-> [col \in Idx |->
        IF <<row, col>> \in SampleCells THEN f[<<row, col>>] ELSE Empty]]

InitBoard ==
    /\ grid \in {SampleBoard(f) : f \in [SampleCells -> Cell]}
    /\ current_player = Black
    /\ pc = "call"
    /\ moves = 0
    /\ call = <<>>
    /\ input = <<>>
    /\ outcome = "start"
    /\ eof = FALSE
    /\ result = ""

CallApplyMove(row, col, color) ==
    /\ pc = "call"
    /\ is_valid_move(grid, row, col, color)
    /\ grid' = apply_move(grid, row, col, color)
    /\ call' = <<[before |-> grid, row |-> row, col |-> col, color |-> color]>>
    /\ moves' = moves + 1
    /\ pc' = "ret"
    /\ UNCHANGED <<current_player, input, outcome, eof, result>>

NextBoard ==
    \E row \in Idx : \E col \in Idx : \E color \in Players : CallApplyMove(row, col, color)

SpecBoard == InitBoard /\ [][NextBoard]_vars

(***************************************************************************)
(* End games: the game loop from the last but two position of three full   *)
(* games, each a sequence of legal moves of Black and White in turn        *)
(***************************************************************************)
\* a game that White wins 39 to 25, one that Black wins 33 to 31, one drawn 32 to 32
GameWhiteWins ==
    << <<5, 4>>, <<5, 3>>, <<3, 2>>, <<2, 3>>, <<5, 2>>, <<4, 1>>, <<1, 3>>, <<1, 4>>, <<3,
       0>>, <<6, 3>>, <<3, 1>>, <<3, 5>>, <<7, 3>>, <<6, 4>>, <<1, 5>>, <<5, 1>>, <<4, 5>>,
       <<5, 5>>, <<6, 6>>, <<2, 1>>, <<6, 1>>, <<7, 2>>, <<3, 6>>, <<2, 5>>, <<5, 6>>, <<4,
       6>>, <<4, 7>>, <<7, 0>>, <<6, 2>>, <<0, 3>>, <<7, 1>>, <<2, 7>>, <<2, 4>>, <<7, 7>>,
       <<7, 5>>, <<0, 5>>, <<0, 6>>, <<2, 2>>, <<6, 0>>, <<2, 6>>, <<7, 4>>, <<6, 7>>, <<1,
       7>>, <<0, 7>>, <<5, 0>>, <<4, 0>>, <<1, 2>>, <<6, 5>>, <<1, 6>>, <<1, 0>>, <<7, 6>>,
       <<3, 7>>, <<1, 1>>, <<2, 0>>, <<4, 2>>, <<0, 4>>, <<5, 7>>, <<0, 1>>, <<0, 0>>, <<0,
       2>> >>

GameBlackWins ==
    << <<3, 2>>, <<2, 4>>, <<3, 5>>, <<4, 6>>, <<5, 4>>, <<4, 2>>, <<5, 2>>, <<5, 5>>, <<2,
       3>>, <<6, 4>>, <<2, 5>>, <<1, 3>>, <<1, 5>>, <<2, 1>>, <<6, 6>>, <<0, 5>>, <<1, 6>>,
       <<5, 1>>, <<4, 1>>, <<1, 7>>, <<5, 3>>, <<2, 6>>, <<0, 7>>, <<2, 7>>, <<0, 6>>, <<5,
       6>>, <<7, 5>>, <<3, 0>>, <<0, 3>>, <<7, 4>>, <<6, 0>>, <<2, 2>>, <<3, 6>>, <<7, 7>>,
       <<6, 1>>, <<3, 7>>, <<7, 6>>, <<6, 2>>, <<7, 3>>, <<0, 2>>, <<1, 4>>, <<5, 7>>, <<0,
       4>>, <<7, 1>>, <<6, 3>>, <<7, 0>>, <<4, 0>>, <<6, 5>>, <<3, 1>>, <<5, 0>>, <<1, 2>>,
       <<4, 5>>, <<1, 0>>, <<6, 7>>, <<4, 7>>, <<7, 2>>, <<0, 1>>, <<1, 1>>, <<2, 0>>, <<0,
       0>> >>

GameDrawn ==
    << <<5, 4>>, <<3, 5>>, <<2, 5>>, <<1, 5>>, <<2, 6>>, <<5, 2>>, <<2, 4>>, <<6, 5>>, <<2,
       2>>, <<3, 7>>, <<4, 2>>, <<1, 6>>, <<0, 5>>, <<4, 5>>, <<6, 2>>, <<6, 1>>, <<5, 3>>,
       <<7, 1>>, <<5, 5>>, <<1, 4>>, <<2, 3>>, <<5, 6>>, <<6, 3>>, <<6, 4>>, <<1, 7>>, <<0,
       7>>, <<0, 6>>, <<0, 4>>, <<3, 2>>, <<3, 6>>, <<5, 7>>, <<3, 1>>, <<2, 7>>, <<4, 6>>,
       <<7, 5>>, <<2, 1>>, <<4, 1>>, <<6, 6>>, <<3, 0>>, <<4, 0>>, <<7, 7>>, <<2, 0>>, <<7,
       2>>, <<7, 6>>, <<7, 0>>, <<7, 4>>, <<7, 3>>, <<5, 1>>, <<1, 0>>, <<6, 0>>, <<1, 2>>,
       <<0, 3>>, <<4, 7>>, <<1, 1>>, <<6, 7>>, <<1, 3>>, <<0, 1>>, <<5, 0>>, <<0, 2>>, <<0,
       0>> >>

EndGames == {GameWhiteWins, GameBlackWins, GameDrawn}

\* the player of the n-th move of a game in which no turn is forfeit
mover_of(n) == IF n % 2 = 1 THEN Black ELSE White

\* board after the moves numbered lo to hi of game, replayed in two halves
RECURSIVE ReplayFrom(_, _, _, _)
ReplayFrom(board, game, lo, hi) ==
    IF lo > hi THEN board
    ELSE IF lo = hi THEN apply_move(board, game[lo][1], game[lo][2], mover_of(lo))
    ELSE LET mid == (lo + hi) \div 2
             half == ReplayFrom(board, game, lo, mid)
         IN  IF half \in [Idx -> [Idx -> Cell]]
             THEN ReplayFrom(half, game, mid + 1, hi)
             ELSE half

\* the board after the first n moves of game
Replay(game, n) == ReplayFrom(Board_new, game, 1, n)

\* every move of game is one the loop accepts from the player whose turn it is
Playable(game) ==
    \A n \in 1 .. Len(game) :
        is_valid_move(Replay(game, n - 1), game[n][1], game[n][2], mover_of(n))

\* the state of main after the first n moves of game have been read and applied
InitEnd ==
    \E game \in {g \in EndGames : Playable(g)} :
        LET n == Len(game) - 2
        IN  /\ grid = Replay(game, n)
            /\ current_player = mover_of(n + 1)
            /\ pc = "loop"
            /\ moves = n
            /\ call = <<[before |-> Replay(game, n - 1), row |-> game[n][1],
                         col |-> game[n][2], color |-> mover_of(n)]>>
            /\ input = <<LineRead(MoveLine(game[n][1], game[n][2]))>>
            /\ outcome = "applied"
            /\ eof = FALSE
            /\ result = ""

SpecEnd == InitEnd /\ [][Next]_vars

(***************************************************************************)
(* Properties of the game loop, checked under Spec                         *)
(***************************************************************************)
\* the current player has no legal move and the opponent has one
must_pass ==
    /\ pc = "loop"
    /\ ~has_valid_moves(grid, current_player)
    /\ has_valid_moves(grid, opposite(current_player))

\* the text of the last line read, trimmed
last_move_input == trim(input[1].buf)

\* the last read returned a line
line_was_read == input # <<>> /\ input[1].n > 0

\* C1: whenever the loop is at a state where the current player has no legal
\* move and the opponent has one, the next iteration (unless the run aborts in
\* it) hands the turn to the opponent, leaves the board as it is and reads no
\* line.
C1_ForfeitPassesTurn ==
    [][(must_pass /\ pc' = "loop") =>
          /\ current_player' = opposite(current_player)
          /\ grid' = grid
          /\ input' = input]_vars

\* C2: the game loop is never at a state that is not terminal and from which no
\* input line makes progress: while the game is in progress the current player
\* has a legal move to enter.
C2_NoStuckState == in_progress => has_valid_moves(grid, current_player)

\* C3: once a read has returned no data while the game was in progress, the run
\* has aborted: the loop is not back at its top to prompt again.
C3_EofAborts == eof => pc = "panicked"

\* C4: an iteration that rejects its line ("Invalid input" or "Invalid move")
\* leaves the board and the current player as they were, applies no move, and
\* returns to the top of the loop, where the prompt is for the same player.
C4_RejectionKeepsState ==
    [][outcome' \in {"invalid_input", "invalid_move"} =>
          /\ grid' = grid
          /\ current_player' = current_player
          /\ moves' = moves
          /\ call' = call
          /\ pc' = "loop"]_vars

\* a line of the forms C4 names was rejected: of another length than two, naming
\* a row or column outside the board, and naming a cell that is no legal move
C4_Witness ==
    /\ outcome = "invalid_move"
    /\ moves >= 2
    /\ last_move_input = <<CharA + 2, CharA + 3>>
    /\ grid[2][3] # Empty
    /\ pc = "loop"

\* C5: after a line of two characters of which one is outside 'a'..'h', the
\* iteration has reported the line as invalid and the loop is back at its top:
\* the run has not aborted.
C5_OutOfAlphabetRejected ==
    (/\ line_was_read
     /\ Len(last_move_input) = 2
     /\ \E k \in 1 .. 2 : last_move_input[k] \notin CharA .. (CharA + BOARD_SIZE - 1))
    => (outcome \in {"invalid_input", "invalid_move"} /\ pc = "loop")

\* C6: after a line whose trimmed content is not exactly two characters, the
\* iteration has reported "Invalid input" and the loop is back at its top: the
\* run has not aborted.
C6_NotTwoCharsRejected ==
    (line_was_read /\ Len(last_move_input) # 2)
    => (outcome = "invalid_input" /\ pc = "loop")

(***************************************************************************)
(* Properties of the Board                                                 *)
(***************************************************************************)
\* the number of cells of g that hold color
piece_count(g, color) ==
    IF color = Black THEN count_pieces(g)[1] ELSE count_pieces(g)[2]

\* the k-th cell from (row, col) in direction i
Ray(row, col, i, k) == <<row + k * directions[i][1], col + k * directions[i][2]>>

\* cell rc is on the board and holds v
Holds(g, rc, v) == in_board(rc[1], rc[2]) /\ g[rc[1]][rc[2]] = v

\* the capture line of direction i: the cells next to (row, col) that are one or
\* more opponent cells immediately followed by a cell of color; {} if there is none
CaptureRun(g, row, col, i, color) ==
    IF ~Holds(g, Ray(row, col, i, 1), opposite(color)) THEN {}
    ELSE UNION { {Ray(row, col, i, k) : k \in 1 .. n} :
                 n \in { m \in 1 .. BOARD_SIZE :
                           /\ Holds(g, Ray(row, col, i, m + 1), color)
                           /\ \A k \in 1 .. m :
                                 Holds(g, Ray(row, col, i, k), opposite(color)) } }

\* the cells in direction i from (row, col) that differ between g and g2
ChangedInDirection(g, g2, row, col, i) ==
    { rc \in {Ray(row, col, i, k) : k \in 1 .. BOARD_SIZE} :
        in_board(rc[1], rc[2]) /\ g2[rc[1]][rc[2]] # g[rc[1]][rc[2]] }

\* C7: on every board reached from the initial board by legal moves, made by
\* either colour in any order, the two counts of count_pieces add up to 4 plus
\* the number of moves applied.
C7_CountIsFourPlusMoves ==
    count_pieces(grid)[1] + count_pieces(grid)[2] = 4 + moves

\* two moves applied, both by Black
C7_Witness ==
    /\ moves = 2
    /\ call[1].color = Black
    /\ count_pieces(call[1].before) = <<4, 1>>

\* C8: after apply_move(row, col, mover) on a board where is_valid_move(row, col,
\* mover) was true, cell (row, col) holds mover's colour and mover has strictly
\* more pieces than before the call.
C8_MoverGainsCell ==
    call # <<>> =>
        LET c == call[1]
        IN  /\ grid[c.row][c.col] = c.color
            /\ piece_count(grid, c.color) > piece_count(c.before, c.color)

\* a call that flipped two cells or more
C8_Witness ==
    /\ pc = "ret"
    /\ call # <<>>
    /\ piece_count(grid, call[1].color) >= piece_count(call[1].before, call[1].color) + 3

\* C9: for every empty cell (row, col), every mover and each of the 8 directions,
\* the cells that apply_move(row, col, mover) changes in that direction are exactly
\* the capture line of that direction on the board before the call (none if the
\* direction has no capture line), and they are changed to mover's colour.
C9_FlipsAreCaptureLines ==
    \A row \in Idx : \A col \in Idx : \A color \in Players :
        grid[row][col] = Empty =>
            LET g2 == apply_move(grid, row, col, color)
            IN  IF g2 = [grid EXCEPT ![row][col] = color]
                THEN \A i \in 1 .. Len(directions) :
                        CaptureRun(grid, row, col, i, color) = {}
                ELSE \A i \in 1 .. Len(directions) :
                        /\ ChangedInDirection(grid, g2, row, col, i)
                              = CaptureRun(grid, row, col, i, color)
                        /\ \A rc \in CaptureRun(grid, row, col, i, color) :
                              g2[rc[1]][rc[2]] = color

\* a call that flipped in two directions, in one of them two cells or more, and
\* left a third direction, which starts with an opponent cell, alone
C9_Witness ==
    /\ pc = "ret"
    /\ call # <<>>
    /\ LET c == call[1]
       IN  \E i, j, k \in 1 .. Len(directions) :
             /\ i # j
             /\ Cardinality(ChangedInDirection(c.before, grid, c.row, c.col, i)) >= 2
             /\ ChangedInDirection(c.before, grid, c.row, c.col, j) # {}
             /\ Holds(c.before, Ray(c.row, c.col, k, 1), opposite(c.color))
             /\ ChangedInDirection(c.before, grid, c.row, c.col, k) = {}

\* C10: is_valid_move(row, col, mover) is true exactly when the cell is Empty and
\* some direction has a capture line: one or more opponent cells next to (row, col)
\* immediately followed by a mover cell.
C10_ValidIffCaptureLine ==
    \A row \in Idx : \A col \in Idx : \A color \in Players :
        is_valid_move(grid, row, col, color)
            <=> /\ grid[row][col] = Empty
                /\ \E i \in 1 .. Len(directions) : CaptureRun(grid, row, col, i, color) # {}

\* is_valid_move returned true for a cell with a capture line in one direction,
\* a mover cell with no opponent cell before it in another, opponent cells up to
\* the edge of the board in a third, and opponent cells up to an Empty cell in a
\* fourth
C10_Witness ==
    /\ pc = "ret"
    /\ call # <<>>
    /\ LET c == call[1]
           D == 1 .. Len(directions)
       IN  /\ \E i \in D : CaptureRun(c.before, c.row, c.col, i, c.color) # {}
           /\ \E j \in D : Holds(c.before, Ray(c.row, c.col, j, 1), c.color)
           /\ \E k \in D :
                 /\ Holds(c.before, Ray(c.row, c.col, k, 1), opposite(c.color))
                 /\ ~in_board(Ray(c.row, c.col, k, 2)[1], Ray(c.row, c.col, k, 2)[2])
           /\ \E l \in D :
                 /\ Holds(c.before, Ray(c.row, c.col, l, 1), opposite(c.color))
                 /\ Holds(c.before, Ray(c.row, c.col, l, 2), Empty)

(***************************************************************************)
(* Properties of the remaining contract, checked under Spec, SpecEnd and   *)
(* SpecBoard                                                               *)
(***************************************************************************)
\* the largest row and column is_valid_move is asked about, beyond the board
MaxCoord == 9

\* the rows and columns of the calls: on the board, just off it, and the largest
\* value that the decoding of a line produces
Coords == (0 .. MaxCoord) \cup {2 ^ UsizeBits - 1}

\* the row and column the last line read decodes to
last_cell == decode(last_move_input, FALSE)

\* C11: for every board of a game and every row and column, is_valid_move is
\* false for either colour when row >= 8, or col >= 8, or the cell is not Empty;
\* off the board it answers without reading a cell of the grid.
C11_OffBoardOrOccupiedIsInvalid ==
    \A row \in Coords : \A col \in Coords : \A color \in Players :
        (row >= BOARD_SIZE \/ col >= BOARD_SIZE \/ grid[row][col] # Empty)
            => ~is_valid_move(grid, row, col, color)

\* the loop rejected, as an invalid move, a line naming an occupied cell that has
\* a capture line for the current player: only the occupancy test refuses it
C11_Witness ==
    /\ outcome = "invalid_move"
    /\ pc = "loop"
    /\ line_was_read
    /\ Len(last_move_input) = 2
    /\ last_cell.row \in Idx
    /\ last_cell.col \in Idx
    /\ grid[last_cell.row][last_cell.col] # Empty
    /\ \E i \in 1 .. Len(directions) :
          CaptureRun(grid, last_cell.row, last_cell.col, i, current_player) # {}

\* the counts of the two colours on g, cell by cell
tally(g) ==
    [color \in Players |->
        Cardinality({rc \in Cells : g[rc[1]][rc[2]] = color})]
\* no cell of g is a legal move for Black or for White
NoLegalMove(g) ==
    \A row \in Idx : \A col \in Idx : \A color \in Players :
        ~is_valid_move(g, row, col, color)

\* C12: an iteration of the game loop reports the result and stops exactly when
\* neither Black nor White has a legal move on the current board: no result is
\* reported while a player has a legal move, and no line is requested when
\* neither has one.
C12_ResultIffNoLegalMove ==
    [][IF NoLegalMove(grid)
       THEN pc' = "done" /\ outcome' = "game_over" /\ input' = input /\ grid' = grid
       ELSE pc' # "done" /\ outcome' # "game_over" /\ input' # <<>>]_vars

\* the loop has reported a result and stopped, after lines were read and moves applied
C12_Witness ==
    /\ pc = "done"
    /\ outcome = "game_over"
    /\ NoLegalMove(grid)
    /\ line_was_read
    /\ moves >= 2

\* C13: when the loop stops, the result it reports depends only on the counts of
\* the two colours on the final board, the board the game-over test was made on:
\* "Black wins" by black - white exactly when black > white, "White wins" by
\* white - black exactly when white > black, "Draw" exactly when they are equal.
C13_ResultFromFinalCounts ==
    pc = "done" =>
        LET black == tally(grid)[Black]
            white == tally(grid)[White]
        IN  /\ result[1] \in {"Black wins", "White wins", "Draw"}
            /\ result[1] = "Black wins" <=> black > white
            /\ result[1] = "White wins" <=> white > black
            /\ result[1] = "Draw" <=> black = white
            /\ result[1] = "Black wins" => result[2] = black - white
            /\ result[1] = "White wins" => result[2] = white - black

\* the loop stopped on a full board that White wins by 14
C13_Witness ==
    /\ pc = "done"
    /\ result = <<"White wins", 14>>
    /\ tally(grid)[Black] = 25
    /\ tally(grid)[White] = 39

\* the loop stopped on a board with 32 cells of each colour and reported a draw
C13_WitnessDraw ==
    /\ pc = "done"
    /\ result[1] = "Draw"
    /\ tally(grid)[Black] = 32
    /\ tally(grid)[White] = 32

\* C14: the current player is always Black or White; it is Black until the first
\* move is applied and, from each applied move on, the opposite of the colour
\* that made it; the moves are made by Black and White in turn, so two moves
\* applied one after the other are never of the same colour.
C14_PlayersAlternate ==
    /\ current_player \in Players
    /\ moves = 0 => (call = <<>> /\ current_player = Black)
    /\ moves > 0 =>
          /\ call # <<>>
          /\ call[1].color = (IF moves % 2 = 1 THEN Black ELSE White)
          /\ current_player = opposite(call[1].color)

\* White has just made the second or a later move and the turn is Black's
C14_Witness ==
    /\ outcome = "applied"
    /\ moves >= 2
    /\ call[1].color = White
    /\ current_player = Black
    /\ pc = "loop"

\* C15: before any move is applied the board has White at (3,3) and (4,4), Black
\* at (3,4) and (4,3) and every other cell Empty; the cells that are legal moves
\* for Black on it are exactly (2,3), (3,2), (4,5) and (5,4); and the line "aa",
\* which names (0,0), is rejected as an invalid move.
C15_InitialLegalMoves ==
    moves = 0 =>
        /\ \A rc \in Cells :
              grid[rc[1]][rc[2]] =
                  (IF rc \in {<<3, 3>>, <<4, 4>>} THEN White
                   ELSE IF rc \in {<<3, 4>>, <<4, 3>>} THEN Black
                   ELSE Empty)
        /\ {rc \in Cells : is_valid_move(grid, rc[1], rc[2], Black)}
              = {<<2, 3>>, <<3, 2>>, <<4, 5>>, <<5, 4>>}
        /\ (line_was_read /\ last_move_input = <<CharA, CharA>>)
              => (outcome = "invalid_move" /\ pc = "loop" /\ current_player = Black)

\* the line "aa" was read on the initial board and rejected as an invalid move
C15_Witness ==
    /\ moves = 0
    /\ grid = Board_new
    /\ line_was_read
    /\ last_move_input = <<CharA, CharA>>
    /\ outcome = "invalid_move"

\* C16: Black's move at (2,3) on the initial board changes exactly two cells,
\* (2,3) from Empty to Black and (3,3) from White to Black, and count_pieces of
\* the board it leaves is (black = 4, white = 1).
C16_FirstMoveAtCD ==
    (moves = 1 /\ call[1].row = 2 /\ call[1].col = 3) =>
        /\ call[1].color = Black
        /\ call[1].before = Board_new
        /\ {rc \in Cells : grid[rc[1]][rc[2]] # call[1].before[rc[1]][rc[2]]}
              = {<<2, 3>>, <<3, 3>>}
        /\ call[1].before[2][3] = Empty /\ grid[2][3] = Black
        /\ call[1].before[3][3] = White /\ grid[3][3] = Black
        /\ count_pieces(grid) = <<4, 1>>

\* the loop has applied the line "cd" as Black's first move
C16_Witness ==
    /\ moves = 1
    /\ outcome = "applied"
    /\ last_move_input = <<CharA + 2, CharA + 3>>
    /\ call[1].row = 2
    /\ call[1].col = 3
    /\ count_pieces(grid)[1] + count_pieces(grid)[2] = 5

\* C17: in every run of the game loop the board changes only by a call of
\* apply_move, and each call is made for the current player, with a row and a
\* column on the board, for which is_valid_move is true on the board as it is
\* when apply_move changes it.
C17_ApplyOnlyCheckedMoves ==
    [][/\ grid' # grid => moves' = moves + 1
       /\ moves' # moves =>
             /\ call'[1].color = current_player
             /\ call'[1].row \in Idx
             /\ call'[1].col \in Idx
             /\ call'[1].before = grid
             /\ is_valid_move(grid, call'[1].row, call'[1].col, current_player)
             /\ grid' = apply_move(grid, call'[1].row, call'[1].col, current_player)]_vars

\* the loop has applied a third or later move, after rejecting none or some lines
C17_Witness ==
    /\ outcome = "applied"
    /\ moves >= 3
    /\ call[1].color = opposite(current_player)
    /\ is_valid_move(call[1].before, call[1].row, call[1].col, call[1].color)
    /\ grid # call[1].before

\* C18: for every board of a game and either colour, has_valid_moves is true
\* exactly when some cell of the board is a valid move for that colour; on a board
\* with no legal move for either colour it is false for both.
C18_HasValidMovesIffSomeCell ==
    /\ \A color \in Players :
          has_valid_moves(grid, color)
              <=> \E rc \in Cells : is_valid_move(grid, rc[1], rc[2], color)
    /\ NoLegalMove(grid) =>
          (~has_valid_moves(grid, Black) /\ ~has_valid_moves(grid, White))

\* the loop stopped on a board with pieces on it and no legal move for either
\* colour, has_valid_moves having returned false for both
C18_Witness ==
    /\ pc = "done"
    /\ moves >= 1
    /\ NoLegalMove(grid)
    /\ ~has_valid_moves(grid, Black)
    /\ ~has_valid_moves(grid, White)
    /\ call[1].before # grid

\* cell rc lies on one of the 8 straight rays from (row, col)
OnRay(row, col, rc) ==
    \E i \in 1 .. Len(directions) : \E k \in 1 .. (BOARD_SIZE - 1) :
        Ray(row, col, i, k) = rc

\* C19: apply_move(row, col, mover) on a legal move changes no cell but (row, col)
\* and cells of the opponent's colour on the 8 rays from (row, col), which become
\* mover's: every other Empty cell stays Empty, every cell of mover's colour keeps
\* it, and no cell becomes Empty.
C19_OnlyPlacedAndRayCellsChange ==
    call # <<>> =>
        LET c == call[1]
        IN  \A rc \in Cells :
                LET was == c.before[rc[1]][rc[2]]
                    is  == grid[rc[1]][rc[2]]
                IN  /\ was # Empty => is # Empty
                    /\ was = c.color => is = c.color
                    /\ \/ is = was
                       \/ rc = <<c.row, c.col>> /\ was = Empty /\ is = c.color
                       \/ /\ was = opposite(c.color)
                          /\ is = c.color
                          /\ OnRay(c.row, c.col, rc)

\* a call that flipped a cell and left alone an opponent cell on a ray from the
\* placed cell, an opponent cell off the rays, and a cell of the mover's colour
C19_Witness ==
    /\ pc = "ret"
    /\ call # <<>>
    /\ LET c == call[1]
       IN  /\ \E rc \in Cells :
                 c.before[rc[1]][rc[2]] = opposite(c.color) /\ grid[rc[1]][rc[2]] = c.color
           /\ \E rc \in Cells :
                 /\ OnRay(c.row, c.col, rc)
                 /\ c.before[rc[1]][rc[2]] = opposite(c.color)
                 /\ grid[rc[1]][rc[2]] = opposite(c.color)
           /\ \E rc \in Cells :
                 /\ ~OnRay(c.row, c.col, rc)
                 /\ c.before[rc[1]][rc[2]] = opposite(c.color)
                 /\ grid[rc[1]][rc[2]] = opposite(c.color)
           /\ \E rc \in Cells :
                 /\ rc # <<c.row, c.col>>
                 /\ c.before[rc[1]][rc[2]] = c.color

\* C20: every move the game loop applies raises the mover's count by 1 + k and
\* lowers the opponent's count by k, for some k >= 1: the opponent's count never
\* stays the same and the mover's count grows by at least 2.
C20_MoveCapturesAtLeastOne ==
    call # <<>> =>
        LET c == call[1]
            k == tally(c.before)[opposite(c.color)] - tally(grid)[opposite(c.color)]
        IN  /\ k >= 1
            /\ tally(grid)[c.color] = tally(c.before)[c.color] + 1 + k
            /\ tally(grid)[c.color] >= tally(c.before)[c.color] + 2

\* the loop has applied a move that captured three cells or more
C20_Witness ==
    /\ outcome = "applied"
    /\ pc = "loop"
    /\ call # <<>>
    /\ tally(grid)[current_player] <= tally(call[1].before)[current_player] - 3
    /\ tally(grid)[call[1].color] >= tally(call[1].before)[call[1].color] + 4

====
